---- MODULE Spec2Model ----
(***************************************************************************)
(* State-machine model of the lane runner in src/index.tsx: the game data  *)
(* kept in the gameData ref, the React state of App, the setup effect that *)
(* is re-run on every gameState change, the keydown handler, the           *)
(* animation-frame callback and the start/retry command.                   *)
(*                                                                         *)
(* Numbers.  The program computes in IEEE doubles; the model computes in   *)
(* fixed point on grids chosen so that every sum and product of the game   *)
(* logic is exact:                                                         *)
(*   time      1 = 0.01 s      (delta, slideTimer, shieldTimer)            *)
(*   velocity  1 = 0.001 /s    (speed, velocityY)                          *)
(*   length    1 = 0.00001     (z, xPos, yPos, score) = velocity * time    *)
(* Only lerp divides; it rounds down to the length grid (see Lerp).        *)
(*                                                                         *)
(* Math.random() is read from a tape of percent values (0..99) that Init   *)
(* picks: the n-th call returns the n-th value, and 0.99 once the tape is   *)
(* used up (no obstacle, no pickup).                                       *)
(***************************************************************************)
EXTENDS Integers, Sequences, FiniteSets, TLC

\* ------------------------------------------------------------ configuration
\* src/index.tsx:7-21, on the grids above.
LANE_X == 250000
LANES == <<-LANE_X, 0, LANE_X>>
LANE_SPEED == 25
GRAVITY == 70
JUMP_FORCE == 22000
RUN_SPEED_START == 20000
MAX_SPEED == 60000
SPEED_INC == 8
SLIDE_DURATION == 80
SHIELD_DURATION == 500
HIT_Z_MIN == -70000
HIT_Z_MAX == 40000
HIT_LANE_DIST == 60000
JUMP_CLEARANCE == 40000

\* Literals of the loop and of the world generator.
MAX_DELTA == 10
SEG_LEN == 2000000
SEG_FIRST_Z == 8000000
SEG_FAR_Z == -16000000
SPAWN_MIN_Z == -1000000
CULL_Z == 2500000
MONSTER_START_Z == 400000
MONSTER_CHASE_Z == 450000
MONSTER_LERP_X == 3
MONSTER_LERP_Z == 8
FAST_FALL == -35000
LENGTH_UNIT == 100 * 1000

\* ------------------------------------------------------------------ bounds
\* Frames: the nominal frame time, and the other frame times the clock may
\* report (12 is cut to MAX_DELTA by the clamp); at most MaxJitter frames of
\* a behaviour are not nominal, at most MaxTicks frames follow the first start
\* command and at most MaxKeys keys are pressed.
NominalFrames == {4}
JitterFrames == {3, 12}
MaxJitter == 1
MaxTicks == 27
MaxKeys == 2
\* Long runs: every frame comes late and is clamped to MAX_DELTA.
LongFrames == {12}
MaxLongTicks == 505
\* Generator runs: what Math.random returns is drawn freely, the run is short.
\* Runs with the frame loop kept going: at most MaxLiveTicks frames, at most
\* MaxLiveKeys jump or duck commands.
MaxLiveTicks == 50
MaxLiveKeys == 3
Draws == {2, 20, 40, 55, 70}
TapeLen == 7
MaxGenTicks == 1

Min(a, b) == IF a < b THEN a ELSE b
Abs(a) == IF a < 0 THEN -a ELSE a

\* THREE.MathUtils.lerp(x, y, t) = (1 - t) * x + t * y, with t = num / 100;
\* the quotient is rounded down to the length grid.
Lerp(x, y, num) == x + ((y - x) * num) \div 100

\* Math.floor(r * 3) for r = p / 100.
Floor3(p) == (p * 3) \div 100

\* ------------------------------------------------------------- the machine
\* Operators below work on one record m holding everything the handlers
\* read and write:
\*   m.gd            gameData.current (src/index.tsx:252-267)
\*   m.gameStateRef  gameStateRef.current
\*   m.gameState, m.score, m.coins, m.hasShield, m.deathReason
\*                   the useState values, queued updates applied
\*   m.sound         soundRef.current: the SoundController's BGM state
\*   m.player, m.monster   the positions of the two rigs' groups
\*   m.tape          the values Math.random() has yet to return

\* Math.random(), as a percent.
Rand(m) == IF m.tape = <<>> THEN 99 ELSE Head(m.tape)
Drawn(m) == [m EXCEPT !.tape = IF @ = <<>> THEN <<>> ELSE Tail(@)]

spawnObject(m, type, lane, z, subtype) ==
    [m EXCEPT !.gd.objects = Append(@, [id |-> m.gd.objIdCounter, type |-> type,
                                        subtype |-> subtype, lane |-> lane,
                                        z |-> z, active |-> TRUE]),
              !.gd.objIdCounter = @ + 1]

\* t = Math.random() > 0.6 ? 'FULL' : (Math.random() > 0.5 ? 'JUMP' : 'SLIDE'):
\* the second call is made only when the first is not above 0.6.
SingleObstacle(m, zLoc) ==
    LET l == Floor3(Rand(m))
        m1 == Drawn(m)
        r1 == Rand(m1)
        m2 == Drawn(m1)
    IN  IF r1 > 60 THEN spawnObject(m2, "OBSTACLE", l, zLoc, "FULL")
        ELSE spawnObject(Drawn(m2), "OBSTACLE", l, zLoc,
                         IF Rand(m2) > 50 THEN "JUMP" ELSE "SLIDE")

RECURSIVE SpawnLanes(_, _, _, _, _)
\* [0,1,2].forEach(l => { if (l !== skip) spawnObject('OBSTACLE', l, zLoc, subtype) })
SpawnLanes(m, l, skip, zLoc, subtype) ==
    IF l > 2 THEN m
    ELSE SpawnLanes(IF l = skip THEN m ELSE spawnObject(m, "OBSTACLE", l, zLoc, subtype),
                    l + 1, skip, zLoc, subtype)

\* The layout roll (src/index.tsx:477-490).
SpawnObstacles(m, zLoc) ==
    LET roll == Rand(m)
        m1 == Drawn(m)
    IN  IF roll < 30 THEN SingleObstacle(m1, zLoc)
        ELSE IF roll < 50 THEN SpawnLanes(Drawn(m1), 0, Floor3(Rand(m1)), zLoc, "FULL")
        ELSE IF roll < 60 THEN SpawnLanes(m1, 0, -1, zLoc, "JUMP")
        ELSE m1

\* gameData.current.objects.some(o => o.z === zLoc && o.lane === l)
BusyNever(objects, zLoc, l) == FALSE

Busy(objects, zLoc, l) ==
    \E i \in 1..Len(objects) : objects[i].z = zLoc /\ objects[i].lane = l

\* The pickup roll (src/index.tsx:492-499).
SpawnPickup(m, zLoc) ==
    LET p == Rand(m)
        m1 == Drawn(m)
        l == Floor3(Rand(m1))
        m2 == Drawn(m1)
    IN  IF p < 50
        THEN IF Busy(m2.gd.objects, zLoc, l) THEN m2
             ELSE spawnObject(Drawn(m2), IF Rand(m2) < 5 THEN "SHIELD" ELSE "COIN",
                              l, zLoc, "NONE")
        ELSE m1

spawnSegmentAnywhere(m, zPos) ==
    SpawnPickup(SpawnObstacles([m EXCEPT !.gd.segments = Append(@, zPos)], zPos),
                zPos)

spawnSegment(m, zPos) ==
    LET m1 == [m EXCEPT !.gd.segments = Append(@, zPos)]
    IN  IF zPos < SPAWN_MIN_Z THEN SpawnPickup(SpawnObstacles(m1, zPos), zPos)
        ELSE m1

RECURSIVE InitSegments(_)
\* while (nextSegmentZ > -160) { spawnSegment(nextSegmentZ); nextSegmentZ -= 20; }
InitSegments(m) ==
    IF m.gd.nextSegmentZ > SEG_FAR_Z
    THEN InitSegments([spawnSegment(m, m.gd.nextSegmentZ)
                          EXCEPT !.gd.nextSegmentZ = @ - SEG_LEN])
    ELSE m

initWorld(m) ==
    InitSegments([m EXCEPT !.gd.objects = <<>>, !.gd.segments = <<>>,
                           !.gd.nextSegmentZ = SEG_FIRST_Z])

\* ---------------------------------------------------------- SoundController
\* Only the BGM sequencer's state: isPlayingMusic, and whether the interval
\* timer held in bgmTimer is live.  m.timers counts the live interval timers
\* of all controllers ever made.
NewSoundController == [isPlayingMusic |-> FALSE, bgmTimerLive |-> FALSE]

startBGM(m) ==
    IF m.sound.isPlayingMusic THEN m
    ELSE [m EXCEPT !.sound = [isPlayingMusic |-> TRUE, bgmTimerLive |-> TRUE],
                   !.timers = @ + 1]

stopBGM(m) ==
    [m EXCEPT !.sound = [isPlayingMusic |-> FALSE, bgmTimerLive |-> FALSE],
              !.timers = IF m.sound.bgmTimerLive THEN @ - 1 ELSE @]

\* ------------------------------------------------------------------ controls
\* if (gd.lane > 0) gd.lane--   /   if (gd.lane < 2) gd.lane++
LaneLeft(lane) == IF lane > 0 THEN lane - 1 ELSE lane
LaneRightWraps(lane) == (lane + 1) % 3

LaneRight(lane) == IF lane < 2 THEN lane + 1 ELSE lane

KeyJumpOutOfSlide(gd) ==
    IF ~gd.isJumping
    THEN [gd EXCEPT !.velocityY = JUMP_FORCE, !.isJumping = TRUE]
    ELSE gd

KeyJump(gd) ==
    IF ~gd.isJumping /\ ~gd.isSliding
    THEN [gd EXCEPT !.velocityY = JUMP_FORCE, !.isJumping = TRUE]
    ELSE gd

KeyDuckInTheAir(gd) ==
    IF ~gd.isSliding
    THEN [gd EXCEPT !.isSliding = TRUE, !.slideTimer = SLIDE_DURATION]
    ELSE gd

KeyDuck(gd) ==
    IF gd.isJumping THEN [gd EXCEPT !.velocityY = FAST_FALL]
    ELSE IF ~gd.isSliding
         THEN [gd EXCEPT !.isSliding = TRUE, !.slideTimer = SLIDE_DURATION]
         ELSE gd

Keys == {"ArrowLeft", "ArrowRight", "ArrowUp", "ArrowDown"}

handleKeyInAnyState(m, key) ==
    CASE key = "ArrowLeft" -> [m EXCEPT !.gd.lane = LaneLeft(@)]
      [] key = "ArrowRight" -> [m EXCEPT !.gd.lane = LaneRight(@)]
      [] key = "ArrowUp" -> [m EXCEPT !.gd = KeyJump(@)]
      [] key = "ArrowDown" -> [m EXCEPT !.gd = KeyDuck(@)]
      [] OTHER -> m

handleKey(m, key) ==
    IF m.gameStateRef # "PLAYING" THEN m
    ELSE CASE key = "ArrowLeft" -> [m EXCEPT !.gd.lane = LaneLeft(@)]
           [] key = "ArrowRight" -> [m EXCEPT !.gd.lane = LaneRight(@)]
           [] key = "ArrowUp" -> [m EXCEPT !.gd = KeyJump(@)]
           [] key = "ArrowDown" -> [m EXCEPT !.gd = KeyDuck(@)]
           [] OTHER -> m

\* ------------------------------------------------------------- the frame
\* gd.speed = Math.min(gd.speed + SPEED_INC * delta, MAX_SPEED)
NextSpeedUncapped(speed, delta) == speed + SPEED_INC * delta

NextSpeed(speed, delta) == Min(speed + SPEED_INC * delta, MAX_SPEED)

\* gd.score += gd.speed * delta; setScore(Math.floor(gd.score))
Advance(m, delta) ==
    LET speed == NextSpeed(m.gd.speed, delta)
        score == m.gd.score + speed * delta
    IN  [m EXCEPT !.gd.speed = speed, !.gd.score = score,
                  !.score = score \div LENGTH_UNIT]

\* The shield countdown (src/index.tsx:620-627).
ShieldCountdownKeepsFlag(m, delta) ==
    IF m.gd.shieldTimer > 0
    THEN [m EXCEPT !.gd.shieldTimer = @ - delta]
    ELSE m

ShieldCountdown(m, delta) ==
    IF m.gd.shieldTimer > 0
    THEN LET t == m.gd.shieldTimer - delta
         IN  [m EXCEPT !.gd.shieldTimer = t,
                       !.hasShield = IF t <= 0 THEN FALSE ELSE @]
    ELSE m

\* gd.xPos = lerp(gd.xPos, LANES[gd.lane], delta * LANE_SPEED)
MoveX(gd, delta) ==
    [gd EXCEPT !.xPos = Lerp(gd.xPos, LANES[gd.lane + 1], delta * LANE_SPEED)]

\* Jump and slide integration (src/index.tsx:633-647).
MoveYWithoutGravity(gd, delta) ==
    IF gd.isJumping
    THEN LET y == gd.yPos + gd.velocityY * delta
         IN  IF y <= 0
             THEN [gd EXCEPT !.yPos = 0, !.isJumping = FALSE, !.velocityY = 0]
             ELSE [gd EXCEPT !.yPos = y]
    ELSE IF gd.isSliding
    THEN [gd EXCEPT !.slideTimer = @ - delta, !.yPos = 0,
                    !.isSliding = ~(gd.slideTimer - delta <= 0)]
    ELSE [gd EXCEPT !.yPos = 0]

MoveY(gd, delta) ==
    IF gd.isJumping
    THEN LET y == gd.yPos + gd.velocityY * delta
             v == gd.velocityY - GRAVITY * 10 * delta
         IN  IF y <= 0
             THEN [gd EXCEPT !.yPos = 0, !.isJumping = FALSE, !.velocityY = 0]
             ELSE [gd EXCEPT !.yPos = y, !.velocityY = v]
    ELSE IF gd.isSliding
    THEN [gd EXCEPT !.slideTimer = @ - delta, !.yPos = 0,
                    !.isSliding = ~(gd.slideTimer - delta <= 0)]
    ELSE [gd EXCEPT !.yPos = 0]

\* monster.group.position.x = lerp(monster.group.position.x, gd.xPos, delta * 3).
\* A position that trails the player is kept as "trailing", without its
\* value: it is overwritten before anything reads it.
ChaseX(mx, xPos, delta) ==
    IF mx.at /\ (mx.v = xPos \/ delta = 0) THEN mx
    ELSE [at |-> FALSE, v |-> 0]

\* gd.segments.forEach(s => s.position.z += moveZ)
Scroll(segments, moveZ) == [i \in 1..Len(segments) |-> segments[i] + moveZ]

\* if (gd.segments[0].position.z > 80) gd.segments.shift()
RecycleLate(segments) ==
    IF segments[1] > SEG_FIRST_Z + SEG_LEN THEN Tail(segments) ELSE segments

Recycle(segments) ==
    IF segments[1] > SEG_FIRST_Z THEN Tail(segments) ELSE segments

RECURSIVE Extend(_)
\* while (last.position.z > -160) spawnSegment(last.position.z - 20)
Extend(m) ==
    LET last == m.gd.segments[Len(m.gd.segments)]
    IN  IF last > SEG_FAR_Z THEN Extend(spawnSegment(m, last - SEG_LEN)) ELSE m

InHitWindow(z) == z > HIT_Z_MIN /\ z < HIT_Z_MAX
Aligned(xPos, lane) == Abs(xPos - LANES[lane + 1]) < HIT_LANE_DIST

\* The clearance rule of an obstacle (src/index.tsx:709-719).
ObstacleHitLogsAlwaysTrip(obj, gd) ==
    CASE obj.subtype = "SLIDE" -> ~gd.isSliding
      [] OTHER -> TRUE

ObstacleHitHeightClearsGates(obj, gd) ==
    CASE obj.subtype = "JUMP" -> ~(gd.yPos > JUMP_CLEARANCE)
      [] obj.subtype = "SLIDE" -> ~(gd.isSliding \/ gd.yPos > JUMP_CLEARANCE)
      [] OTHER -> TRUE

ObstacleHitClearsWalls(obj, gd) ==
    CASE obj.subtype = "SLIDE" -> ~gd.isSliding
      [] OTHER -> ~(gd.yPos > JUMP_CLEARANCE)

ObstacleHit(obj, gd) ==
    CASE obj.subtype = "JUMP" -> ~(gd.yPos > JUMP_CLEARANCE)
      [] obj.subtype = "SLIDE" -> ~gd.isSliding
      [] OTHER -> TRUE

ReasonWithFallback(obj) ==
    CASE obj.subtype = "JUMP" -> "TRIPPED ON LOG"
      [] obj.subtype = "SLIDE" -> "HIT HEAD ON GATE"
      [] OTHER -> "HIT OBSTACLE"

Reason(obj) ==
    CASE obj.subtype = "JUMP" -> "TRIPPED ON LOG"
      [] obj.subtype = "SLIDE" -> "HIT HEAD ON GATE"
      [] OTHER -> "SMASHED INTO WALL"

\* A hit obstacle: absorbed by the shield, or the end of the run
\* (src/index.tsx:721-732).  r = [m, obj].
ResolveHitSpendsShield(r) ==
    IF r.m.gd.shieldTimer > 0
    THEN [r EXCEPT !.obj.active = FALSE, !.m.gd.shieldTimer = 0,
                   !.m.hasShield = FALSE]
    ELSE [r EXCEPT !.m = [stopBGM(r.m) EXCEPT !.gameStateRef = "GAMEOVER",
                                              !.deathReason = Reason(r.obj),
                                              !.gameState = "GAMEOVER"]]

ResolveHit(r) ==
    IF r.m.gd.shieldTimer > 0
    THEN [r EXCEPT !.obj.active = FALSE]
    ELSE [r EXCEPT !.m = [stopBGM(r.m) EXCEPT !.gameStateRef = "GAMEOVER",
                                              !.deathReason = Reason(r.obj),
                                              !.gameState = "GAMEOVER"]]

\* The collision rules for one object inside the hit window and aligned
\* (src/index.tsx:697-734).  r = [m, obj].
CollideCoinStaysActive(r) ==
    CASE r.obj.type = "COIN" -> [r EXCEPT !.m.coins = @ + 1]
      [] r.obj.type = "SHIELD" ->
            [r EXCEPT !.obj.active = FALSE, !.m.gd.shieldTimer = SHIELD_DURATION,
                      !.m.hasShield = TRUE]
      [] r.obj.type = "OBSTACLE" ->
            IF ObstacleHit(r.obj, r.m.gd) THEN ResolveHit(r) ELSE r
      [] OTHER -> r

Collide(r) ==
    CASE r.obj.type = "COIN" ->
            [r EXCEPT !.obj.active = FALSE, !.m.coins = @ + 1]
      [] r.obj.type = "SHIELD" ->
            [r EXCEPT !.obj.active = FALSE, !.m.gd.shieldTimer = SHIELD_DURATION,
                      !.m.hasShield = TRUE]
      [] r.obj.type = "OBSTACLE" ->
            IF ObstacleHit(r.obj, r.m.gd) THEN ResolveHit(r) ELSE r
      [] OTHER -> r

CulledFarther(z) == z > 2 * CULL_Z

Culled(z) == z > CULL_Z

RECURSIVE ObjectsLoop(_, _, _, _)
\* gd.objects.forEach(obj => ...) building nextObjects (src/index.tsx:680-738);
\* nextObjects holds the objects themselves, so a flag cleared after the push
\* shows in the list.
ObjectsLoop(m, i, next, moveZ) ==
    IF i > Len(m.gd.objects) THEN [m EXCEPT !.gd.objects = next]
    ELSE LET o == m.gd.objects[i]
             obj == [o EXCEPT !.z = @ + moveZ]
         IN  IF ~o.active \/ Culled(obj.z) THEN ObjectsLoop(m, i + 1, next, moveZ)
             ELSE IF InHitWindow(obj.z) /\ Aligned(m.gd.xPos, obj.lane)
             THEN LET r == Collide([m |-> m, obj |-> obj])
                  IN  ObjectsLoop(r.m, i + 1, Append(next, r.obj), moveZ)
             ELSE ObjectsLoop(m, i + 1, Append(next, obj), moveZ)

\* const delta = Math.min(clock.getDelta(), 0.1)
Clamp(elapsed) == Min(elapsed, MAX_DELTA)

\* The PLAYING branch of animate (src/index.tsx:614-742).
PlayingFrame(m, delta) ==
    LET m1 == ShieldCountdown(Advance(m, delta), delta)
        gd2 == MoveY(MoveX(m1.gd, delta), delta)
        moveZ == gd2.speed * delta
        m2 == [m1 EXCEPT !.gd = [gd2 EXCEPT !.segments = Recycle(Scroll(@, moveZ))],
                         !.player = [x |-> gd2.xPos, y |-> gd2.yPos],
                         !.monster = [x |-> ChaseX(m1.monster.x, gd2.xPos, delta),
                                      z |-> MONSTER_CHASE_Z]]
    IN  ObjectsLoop(Extend(m2), 1, <<>>, moveZ)

\* The GAMEOVER branch of animate (src/index.tsx:744-750).
GameOverFrame(m, delta) ==
    [m EXCEPT !.monster = [x |-> [at |-> TRUE, v |-> m.player.x],
                           z |-> Lerp(m.monster.z, 0, delta * MONSTER_LERP_Z)]]

animate(m, elapsed) ==
    LET delta == Clamp(elapsed)
    IN  IF m.gameStateRef = "PLAYING" THEN PlayingFrame(m, delta)
        ELSE IF m.gameStateRef = "GAMEOVER" THEN GameOverFrame(m, delta)
        ELSE m

RECURSIVE everyListener(_, _, _)
\* A keydown event is handed to each of the n listeners that are registered
\* on window (src/index.tsx:542); all of them write the same gameData.
everyListener(m, key, n) ==
    IF n <= 0 THEN m ELSE everyListener(handleKey(m, key), key, n - 1)

RECURSIVE everyLoop(_, _, _)
\* An animation frame runs the callback of each of the n loops that have a
\* request pending (src/index.tsx:610); all of them write the same gameData.
everyLoop(m, elapsed, n) ==
    IF n <= 0 THEN m ELSE everyLoop(animate(m, elapsed), elapsed, n - 1)

\* ------------------------------------------------------- the setup effect
\* The cleanup the effect returns (src/index.tsx:763-769).
CleanupLeavesListener(m) ==
    [stopBGM(m) EXCEPT !.loops = @ - 1]

Cleanup(m) ==
    [stopBGM(m) EXCEPT !.listeners = @ - 1, !.loops = @ - 1]

\* The effect body (src/index.tsx:271-761): a new SoundController, a new
\* scene with both rigs at their start positions, a new world, the keydown
\* listener, and the first call of animate, whose clock reports 0.
Setup(m) ==
    LET m1 == [m EXCEPT !.sound = NewSoundController,
                        !.player = [x |-> 0, y |-> 0],
                        !.monster = [x |-> [at |-> TRUE, v |-> 0],
                                     z |-> MONSTER_START_Z],
                        !.listeners = @ + 1,
                        !.loops = @ + 1]
    IN  animate(initWorld(m1), 0)

\* startGame (src/index.tsx:772-785).
startGameKeepsLane(m) ==
    [startBGM(m) EXCEPT !.score = 0, !.coins = 0, !.hasShield = FALSE,
                        !.deathReason = "", !.gd.score = 0,
                        !.gd.speed = RUN_SPEED_START, !.gd.shieldTimer = 0,
                        !.gameState = "PLAYING", !.gameStateRef = "PLAYING"]

startGameForgetsRef(m) ==
    [startBGM(m) EXCEPT !.score = 0, !.coins = 0, !.hasShield = FALSE,
                        !.deathReason = "", !.gd.score = 0,
                        !.gd.speed = RUN_SPEED_START, !.gd.lane = 1,
                        !.gd.xPos = 0, !.gd.shieldTimer = 0,
                        !.gameState = "PLAYING"]

startGameKeepsDistance(m) ==
    [startBGM(m) EXCEPT !.score = 0, !.coins = 0, !.hasShield = FALSE,
                        !.deathReason = "", !.gd.speed = RUN_SPEED_START,
                        !.gd.lane = 1, !.gd.xPos = 0, !.gd.shieldTimer = 0,
                        !.gameState = "PLAYING", !.gameStateRef = "PLAYING"]

startGame(m) ==
    [startBGM(m) EXCEPT !.score = 0, !.coins = 0, !.hasShield = FALSE,
                        !.deathReason = "",
                        !.gd.score = 0, !.gd.speed = RUN_SPEED_START,
                        !.gd.lane = 1, !.gd.xPos = 0, !.gd.shieldTimer = 0,
                        !.gameState = "PLAYING", !.gameStateRef = "PLAYING"]

\* The component before its first effect (src/index.tsx:242-269).
Mounted(tape) ==
    [gd |-> [score |-> 0, speed |-> RUN_SPEED_START, lane |-> 1, xPos |-> 0,
             yPos |-> 0, velocityY |-> 0, isJumping |-> FALSE,
             isSliding |-> FALSE, slideTimer |-> 0, shieldTimer |-> 0,
             objects |-> <<>>, segments |-> <<>>, nextSegmentZ |-> 0,
             objIdCounter |-> 0],
     gameStateRef |-> "START", gameState |-> "START", score |-> 0, coins |-> 0,
     hasShield |-> FALSE, deathReason |-> "",
     sound |-> NewSoundController, timers |-> 0, listeners |-> 0, loops |-> 0,
     player |-> [x |-> 0, y |-> 0],
     monster |-> [x |-> [at |-> TRUE, v |-> 0], z |-> 0],
     tape |-> tape]

\* ---------------------------------------------------------------- the tapes
\* What Math.random() returns, call by call.  The first effect run builds a
\* world that is never played (7 segments, 2 calls each when nothing is
\* placed); the world built by the start command follows.
Quiet(n) == [i \in 1..n |-> 99]
FirstWorld == Quiet(14)
Tapes ==
    { FirstWorld \o t : t \in {
        <<>>,                         \* an empty track
        <<10, 40, 70, 99>>,           \* a FULL wall in the centre lane
        <<10, 40, 30, 70, 99>>,       \* a JUMP log in the centre lane
        <<10, 40, 30, 20, 99>>,       \* a SLIDE gate in the centre lane
        <<40, 40, 99>>,               \* FULL walls left and right
        <<55, 20, 50>>,               \* JUMP logs in all lanes, pickup refused
        <<99, 20, 40, 50>>,           \* a coin in the centre lane
        <<10, 10, 70, 20, 40, 2>>     \* a FULL wall left, a shield in the centre
      } }

\* ------------------------------------------------------------------- state
VARIABLES
    gd, gameStateRef, gameState, score, coins, hasShield, deathReason,
    sound, timers, listeners, loops, player, monster, tape,
    rendered,   \* the gameState of the last committed render: what the
                \* JSX shows and what the effect last ran for
    ticks, jitters, keys,  \* frames since the first start, frames off the nominal time, keys pressed
    last,       \* the handler that ran last, with its input
    clearedOnEntry  \* ids of the JUMP obstacles that entered the hit window
                    \* in a frame that ended with yPos > JUMP_CLEARANCE

prog == <<gd, gameStateRef, gameState, score, coins, hasShield, deathReason,
          sound, timers, listeners, loops, player, monster, tape>>
vars == <<prog, rendered, ticks, jitters, keys, last, clearedOnEntry>>

Machine ==
    [gd |-> gd, gameStateRef |-> gameStateRef, gameState |-> gameState,
     score |-> score, coins |-> coins, hasShield |-> hasShield,
     deathReason |-> deathReason, sound |-> sound, timers |-> timers,
     listeners |-> listeners, loops |-> loops, player |-> player,
     monster |-> monster, tape |-> tape]

Becomes(m) ==
    /\ gd' = m.gd
    /\ gameStateRef' = m.gameStateRef
    /\ gameState' = m.gameState
    /\ score' = m.score
    /\ coins' = m.coins
    /\ hasShield' = m.hasShield
    /\ deathReason' = m.deathReason
    /\ sound' = m.sound
    /\ timers' = m.timers
    /\ listeners' = m.listeners
    /\ loops' = m.loops
    /\ player' = m.player
    /\ monster' = m.monster
    /\ tape' = m.tape

Starts(m) ==
    /\ gd = m.gd
    /\ gameStateRef = m.gameStateRef
    /\ gameState = m.gameState
    /\ score = m.score
    /\ coins = m.coins
    /\ hasShield = m.hasShield
    /\ deathReason = m.deathReason
    /\ sound = m.sound
    /\ timers = m.timers
    /\ listeners = m.listeners
    /\ loops = m.loops
    /\ player = m.player
    /\ monster = m.monster
    /\ tape = m.tape

\* The page after the first render and the first effect run.
Init ==
    /\ \E t \in Tapes : Starts(Setup(Mounted(t)))
    /\ rendered = "START"
    /\ ticks = 0
    /\ jitters = 0
    /\ keys = 0
    /\ last = <<"mount">>
    /\ clearedOnEntry = {}

\* A keydown event reaches the registered listeners.
KeyDown ==
    /\ keys < MaxKeys
    /\ \E key \in Keys : /\ Becomes(everyListener(Machine, key, listeners))
                         /\ last' = <<"key", key>>
    /\ keys' = keys + 1
    /\ UNCHANGED <<rendered, ticks, jitters, clearedOnEntry>>

Objects(g) == {g.objects[i] : i \in 1..Len(g.objects)}

\* The JUMP obstacles of g that the frame of length elapsed, which produced g,
\* brought into the hit window while the player was above JUMP_CLEARANCE.
EnteredCleared(g, elapsed) ==
    {o.id : o \in {o \in Objects(g) :
                     /\ o.type = "OBSTACLE" /\ o.subtype = "JUMP"
                     /\ InHitWindow(o.z)
                     /\ o.z - g.speed * Clamp(elapsed) <= HIT_Z_MIN
                     /\ g.yPos > JUMP_CLEARANCE}}

\* One animation frame, elapsed after the last: the pending callbacks run.
Animated(elapsed) ==
    /\ Becomes(everyLoop(Machine, elapsed, loops))
    /\ last' = <<"frame", elapsed>>
    /\ ticks' = IF gameStateRef = "START" THEN ticks ELSE ticks + 1
    /\ clearedOnEntry' = IF gameStateRef = "PLAYING"
                         THEN clearedOnEntry \cup EnteredCleared(gd', elapsed)
                         ELSE clearedOnEntry

\* An animation frame of the nominal length.
Frame ==
    /\ ticks < MaxTicks
    /\ \E elapsed \in NominalFrames : Animated(elapsed)
    /\ UNCHANGED <<rendered, jitters, keys>>

\* An animation frame that came early or late.
JitterFrame ==
    /\ ticks < MaxTicks
    /\ jitters < MaxJitter
    /\ \E elapsed \in JitterFrames : Animated(elapsed)
    /\ jitters' = jitters + 1
    /\ UNCHANGED <<rendered, keys>>

\* React renders the state change queued by a frame (setGameState('GAMEOVER'))
\* and re-runs the effect, whose dependency is gameState.
Render ==
    /\ rendered # gameState
    /\ Becomes(Setup(Cleanup(Machine)))
    /\ rendered' = gameState
    /\ last' = <<"render">>
    /\ UNCHANGED <<ticks, jitters, keys, clearedOnEntry>>

\* A click on the RUN! / TRY AGAIN button, shown when the rendered state is
\* START or GAMEOVER; React renders and re-runs the effect before the click
\* returns.
StartGame ==
    /\ rendered \in {"START", "GAMEOVER"}
    /\ rendered = gameState
    /\ Becomes(Setup(Cleanup(startGame(Machine))))
    /\ rendered' = "PLAYING"
    /\ last' = <<"start">>
    /\ UNCHANGED <<ticks, jitters, keys, clearedOnEntry>>

\* Long runs without input, on worlds of their own.
LongTapes ==
    { FirstWorld \o t : t \in
        { <<>>,                          \* nothing on the track
          <<99, 20, 10, 50>>,            \* a coin in the left lane at z = -20
          <<99, 99, 10, 40, 70, 99>>,    \* a wall in the centre at z = -40
          <<99, 99, 99, 20, 40, 2,       \* a shield in the centre at z = -40
            99, 99, 99, 20, 40, 2>> } }  \* and another at z = -80

InitLong ==
    /\ \E t \in LongTapes : Starts(Setup(Mounted(t)))
    /\ rendered = "START"
    /\ ticks = 0
    /\ jitters = 0
    /\ keys = 0
    /\ last = <<"mount">>
    /\ clearedOnEntry = {}

LongFrame ==
    /\ ticks < MaxLongTicks
    /\ \E elapsed \in LongFrames : Animated(elapsed)
    /\ UNCHANGED <<rendered, jitters, keys>>

NextLong == LongFrame \/ Render \/ StartGame

SpecLong == InitLong /\ [][NextLong]_vars

\* Runs that exercise the track generator: the draws of one segment are free.
\* They go to the first segment of the world built at mount, or to the first
\* segment of the world built at start, or, after the initial segments of
\* both, to the segment that the first PLAYING frame appends.
GenTapes ==
    { Quiet(k) \o t : k \in {0, Len(FirstWorld), 2 * Len(FirstWorld)},
                      t \in [1..TapeLen -> Draws] }

InitGen ==
    /\ \E t \in GenTapes : Starts(Setup(Mounted(t)))
    /\ rendered = "START"
    /\ ticks = 0
    /\ jitters = 0
    /\ keys = 0
    /\ last = <<"mount">>
    /\ clearedOnEntry = {}

GenFrame ==
    /\ ticks < MaxGenTicks
    /\ \E elapsed \in NominalFrames : Animated(elapsed)
    /\ UNCHANGED <<rendered, jitters, keys>>

NextGen == GenFrame \/ StartGame

SpecGen == InitGen /\ [][NextGen]_vars

\* Runs on an empty track in which only jump and duck commands arrive, and
\* in which the animation-frame loop keeps running: requestAnimationFrame
\* (src/index.tsx:610) re-arms the callback in every call, so a frame that
\* can run does run.
LiveTapes == {FirstWorld}
PoseKeys == {"ArrowUp", "ArrowDown"}

InitLive ==
    /\ \E t \in LiveTapes : Starts(Setup(Mounted(t)))
    /\ rendered = "START"
    /\ ticks = 0
    /\ jitters = 0
    /\ keys = 0
    /\ last = <<"mount">>
    /\ clearedOnEntry = {}

LiveKey ==
    /\ keys < MaxLiveKeys
    /\ \E key \in PoseKeys : /\ Becomes(everyListener(Machine, key, listeners))
                             /\ last' = <<"key", key>>
    /\ keys' = keys + 1
    /\ UNCHANGED <<rendered, ticks, jitters, clearedOnEntry>>

LiveFrame ==
    /\ ticks < MaxLiveTicks
    /\ \E elapsed \in NominalFrames : Animated(elapsed)
    /\ UNCHANGED <<rendered, jitters, keys>>

LiveJitterFrame ==
    /\ ticks < MaxLiveTicks
    /\ jitters < MaxJitter
    /\ \E elapsed \in JitterFrames : Animated(elapsed)
    /\ jitters' = jitters + 1
    /\ UNCHANGED <<rendered, keys>>

NextLive == LiveKey \/ LiveFrame \/ LiveJitterFrame \/ StartGame

\* A frame that counts: the step of LiveFrame or LiveJitterFrame outside START,
\* told by the frame counter, which no other step changes.
FrameDue == ticks < MaxLiveTicks /\ gameStateRef # "START" /\ ticks' = ticks + 1

SpecLive == InitLive /\ [][NextLive]_vars /\ WF_ticks(FrameDue)

Next == KeyDown \/ Frame \/ JitterFrame \/ Render \/ StartGame

Spec == Init /\ [][Next]_vars

\* ---------------------------------------------------------------------------
\* Steps and states the properties speak about.

\* The step is a frame that runs the PLAYING branch of animate.
PlayingTick == gameStateRef = "PLAYING" /\ last'[1] = "frame"

\* The step delivers the key to handleKey while the game is being played.
PlayingKey(key) == gameStateRef = "PLAYING" /\ last' = <<"key", key>>

\* Obstacle o of the object list is where the player is.
Facing(o, g) ==
    o.type = "OBSTACLE" /\ InHitWindow(o.z) /\ Aligned(g.xPos, o.lane)

\* ---------------------------------------------------------------------------
\* C1: the lane index is always 0, 1 or 2; while the game is played a
\* lane-left command at lane 0 and a lane-right command at lane 2 leave it
\* unchanged, and every other lane command changes it by exactly 1.
LaneInRange ==
    [][ /\ gd.lane \in {0, 1, 2} /\ gd'.lane \in {0, 1, 2}
        /\ PlayingKey("ArrowLeft") =>
             gd'.lane = IF gd.lane = 0 THEN 0 ELSE gd.lane - 1
        /\ PlayingKey("ArrowRight") =>
             gd'.lane = IF gd.lane = 2 THEN 2 ELSE gd.lane + 1 ]_vars

\* The player went to the right lane, a frame moved the character there, and
\* a second ArrowRight was pressed at lane 2.
LaneRightAtEdge ==
    /\ gameStateRef = "PLAYING" /\ last = <<"key", "ArrowRight">>
    /\ keys = 2 /\ gd.lane = 2 /\ gd.xPos = LANES[3]

\* ---------------------------------------------------------------------------
\* C2: a FULL obstacle that a PLAYING frame leaves inside the hit window and
\* aligned with the player, while the shield timer is not positive, ends the
\* frame in GAMEOVER, whatever the player's height and sliding flag.
FullAlwaysHits ==
    [][ PlayingTick =>
          \A o \in Objects(gd') :
             (Facing(o, gd') /\ o.subtype = "FULL" /\ gd'.shieldTimer <= 0)
                => gameStateRef' = "GAMEOVER" ]_vars

\* The player died on a wall while in the air above JUMP_CLEARANCE.
WallHitInTheAir ==
    /\ gameStateRef = "GAMEOVER" /\ rendered = "PLAYING"
    /\ gd.isJumping /\ gd.yPos > JUMP_CLEARANCE /\ gd.shieldTimer <= 0
    /\ \E o \in Objects(gd) : Facing(o, gd) /\ o.subtype = "FULL" /\ o.active

\* Obstacle o was hit in the frame that produced g: it was absorbed by the
\* shield, or it is where the player is and the frame ended the run.
HitIn(o, g, ref) == ~o.active \/ (ref = "GAMEOVER" /\ Facing(o, g))

\* ---------------------------------------------------------------------------
\* C3 (as stated): a JUMP obstacle that entered the hit window in a frame
\* that ended with yPos > JUMP_CLEARANCE is hit in no frame that leaves it
\* inside the window, even when the player has come down in the meantime.
ClearedOnEntryNeverHit ==
    [][ PlayingTick =>
          \A o \in Objects(gd') :
             (o.id \in clearedOnEntry' /\ InHitWindow(o.z))
                => ~HitIn(o, gd', gameStateRef') ]_vars

\* C3 (amended): clearance is decided frame by frame.  In every PLAYING frame
\* that leaves a JUMP obstacle inside the hit window and aligned, the obstacle
\* is hit exactly when yPos, after that frame's kinematics, is not above
\* JUMP_CLEARANCE; having cleared it in the frame of entry protects no later
\* frame.
JumpClearedPerFrame ==
    [][ PlayingTick =>
          \A o \in Objects(gd') :
             (Facing(o, gd') /\ o.subtype = "JUMP")
                => (HitIn(o, gd', gameStateRef') <=> ~(gd'.yPos > JUMP_CLEARANCE)) ]_vars

\* The player was above the log when it entered the window, came down while
\* it was still inside, and tripped on it.
LandedOnClearedLog ==
    /\ gameStateRef = "GAMEOVER" /\ rendered = "PLAYING"
    /\ deathReason = "TRIPPED ON LOG"
    /\ \E o \in Objects(gd) :
          o.id \in clearedOnEntry /\ o.subtype = "JUMP" /\ Facing(o, gd)

\* ---------------------------------------------------------------------------
\* C4: a SLIDE obstacle that a PLAYING frame leaves inside the hit window and
\* aligned is hit exactly when the sliding flag is false after that frame's
\* kinematics, whatever the height: a player above JUMP_CLEARANCE is hit.
GateHitUnlessSliding ==
    [][ PlayingTick =>
          \A o \in Objects(gd') :
             (Facing(o, gd') /\ o.subtype = "SLIDE")
                => (HitIn(o, gd', gameStateRef') <=> ~gd'.isSliding) ]_vars

\* The player died on a gate while above JUMP_CLEARANCE.
GateHitInTheAir ==
    /\ gameStateRef = "GAMEOVER" /\ rendered = "PLAYING"
    /\ deathReason = "HIT HEAD ON GATE"
    /\ gd.isJumping /\ gd.yPos > JUMP_CLEARANCE
    /\ \E o \in Objects(gd) : Facing(o, gd) /\ o.subtype = "SLIDE" /\ o.active

\* ---------------------------------------------------------------------------
\* C5: an obstacle hit while the shield timer, after the frame's countdown,
\* is positive is deactivated, the game stays PLAYING, and the frame takes
\* from the shield timer its own countdown and nothing for the absorption.
ShieldAbsorbsForFree ==
    [][ PlayingTick =>
          \A o \in Objects(gd') :
             (Facing(o, gd') /\ ObstacleHit(o, gd')
                /\ gd.shieldTimer - Clamp(last'[2]) > 0)
                => /\ ~o.active
                   /\ gameStateRef' = "PLAYING"
                   /\ gd'.shieldTimer = gd.shieldTimer - Clamp(last'[2]) ]_vars

\* A frame has just absorbed a wall with the shield up.
WallAbsorbed ==
    /\ gameStateRef = "PLAYING" /\ last[1] = "frame"
    /\ gd.shieldTimer > 0 /\ hasShield
    /\ \E o \in Objects(gd) : Facing(o, gd) /\ o.subtype = "FULL" /\ ~o.active

\* ---------------------------------------------------------------------------
\* C6: the score is set to 0 by the start/retry command and by it alone; no
\* other step, frame or key or render, lowers the distance or the shown score.
ScoreMonotone ==
    [][ /\ last'[1] = "start" => (gd'.score = 0 /\ score' = 0)
        /\ last'[1] # "start" => (gd'.score >= gd.score /\ score' >= score)
        /\ PlayingTick => gd'.score > gd.score ]_vars

\* A retry after a run that was lost: the score is back at 0.
RetryResetsScore ==
    /\ last = <<"start">> /\ ticks > 0
    /\ gd.score = 0 /\ score = 0 /\ gameStateRef = "PLAYING"

\* ---------------------------------------------------------------------------
\* C7: in every state RUN_SPEED_START <= speed <= MAX_SPEED; no step other
\* than start/retry lowers the speed, and start/retry sets it to
\* RUN_SPEED_START.
SpeedWithinLimits ==
    [][ /\ RUN_SPEED_START <= gd.speed /\ gd.speed <= MAX_SPEED
        /\ RUN_SPEED_START <= gd'.speed /\ gd'.speed <= MAX_SPEED
        /\ last'[1] # "start" => gd'.speed >= gd.speed
        /\ last'[1] = "start" => gd'.speed = RUN_SPEED_START
        /\ (PlayingTick /\ gd.speed < MAX_SPEED) => gd'.speed > gd.speed ]_vars

\* The run has lasted longer than the speed needs to climb to MAX_SPEED: the
\* last frame was cut by the cap.
SpeedCapped ==
    /\ gameStateRef = "PLAYING" /\ last[1] = "frame"
    /\ gd.speed = MAX_SPEED
    /\ ticks * MAX_DELTA > (MAX_SPEED - RUN_SPEED_START) \div SPEED_INC

\* ---------------------------------------------------------------------------
\* C8: after every PLAYING frame the segment list is not empty, is ordered
\* from the nearest segment (first) to the farthest, has consecutive segments
\* exactly SEG_LEN apart, ends at or beyond SEG_FAR_Z and starts at or before
\* SEG_FIRST_Z.
SegmentsContiguous ==
    rendered = "PLAYING" =>
       LET segs == gd.segments IN
       /\ Len(segs) >= 1
       /\ \A i \in 1..(Len(segs) - 1) : segs[i] - segs[i + 1] = SEG_LEN
       /\ segs[Len(segs)] <= SEG_FAR_Z
       /\ segs[1] <= SEG_FIRST_Z

\* The track has scrolled by more than a segment: the first two segments
\* were recycled, the nearest is the one laid third, and a segment was
\* appended during a frame.
SegmentsRecycled ==
    /\ rendered = "PLAYING" /\ last[1] = "frame"
    /\ gd.score > SEG_LEN
    /\ gd.segments[1] = SEG_FIRST_Z - 2 * SEG_LEN + gd.score

\* ---------------------------------------------------------------------------
\* C9: no object of the object list is beyond the culling line z = 25; an
\* object that a frame scrolls past the line is gone from the list when the
\* frame ends.
NoObjectPastCamera ==
    \A o \in Objects(gd) : o.z <= CULL_Z

\* The only object ever spawned, a coin in a lane the player never entered,
\* has left the list without being collected.
CoinCulled ==
    /\ gameStateRef = "PLAYING" /\ last[1] = "frame"
    /\ gd.objIdCounter = 1 /\ gd.objects = <<>> /\ coins = 0

\* ---------------------------------------------------------------------------
\* The transitions of the game state the code allows: START or GAMEOVER to
\* PLAYING by the start/retry command, PLAYING to GAMEOVER by a frame that
\* leaves an active obstacle at the player with the shield timer not positive.
AllowedTransition ==
    gameStateRef' # gameStateRef =>
       \/ /\ gameStateRef \in {"START", "GAMEOVER"}
          /\ gameStateRef' = "PLAYING"
          /\ last' = <<"start">>
       \/ /\ PlayingTick
          /\ gameStateRef' = "GAMEOVER"
          /\ gd'.shieldTimer <= 0
          /\ \E o \in Objects(gd') : Facing(o, gd') /\ o.active

\* C10 (as stated): the game state changes only by the allowed transitions,
\* and the state in the ref always equals the state the UI shows.
UiAlwaysShowsRef ==
    [][ AllowedTransition /\ rendered' = gameStateRef' ]_vars

\* C10 (amended): the game state changes only by the allowed transitions; the
\* ref always equals the React state last set; the UI shows the ref's state
\* except between the frame of a death and the next render, when the ref is
\* GAMEOVER and the UI still shows PLAYING.
UiLagsRefAfterDeath ==
    [][ /\ AllowedTransition
        /\ gameStateRef' = gameState'
        /\ rendered' # gameStateRef' =>
              (rendered' = "PLAYING" /\ gameStateRef' = "GAMEOVER") ]_vars

\* The frame of a death has run and React has not rendered yet.
DeathNotYetShown ==
    /\ gameStateRef = "GAMEOVER" /\ gameState = "GAMEOVER"
    /\ rendered = "PLAYING" /\ last[1] = "frame"

\* ---------------------------------------------------------------------------
\* C11: while the ref is START or GAMEOVER a frame or a key press changes
\* nothing of the game data (score, speed, lane, positions, velocity, flags,
\* timers, objects, segments), nor the shown score, coin count and shield
\* flag; a frame in START changes nothing at all, a frame in GAMEOVER only the
\* monster.
FrozenOutsidePlaying ==
    [][ (gameStateRef \in {"START", "GAMEOVER"} /\ last'[1] \in {"frame", "key"})
          => /\ gd' = gd
             /\ score' = score /\ coins' = coins /\ hasShield' = hasShield
             /\ gameStateRef' = gameStateRef /\ player' = player
             /\ (gameStateRef = "START" \/ last'[1] = "key")
                   => monster' = monster ]_vars

\* An ArrowUp pressed after the death was the last step: the player, on the
\* ground and not sliding, did not take off.
IgnoredJumpAfterDeath ==
    /\ gameStateRef = "GAMEOVER" /\ last = <<"key", "ArrowUp">>
    /\ ~gd.isJumping /\ ~gd.isSliding /\ gd.velocityY = 0
    /\ monster.z < MONSTER_CHASE_Z

\* ---------------------------------------------------------------------------
\* C12: right after every start or retry command the distance and the shown
\* score are 0, the coin count is 0, the shield flag is false, the shield
\* timer is 0, the death reason is empty, the lane is 1, the lateral position
\* is 0 and the speed is RUN_SPEED_START.
StartResetsRun ==
    [][ last' = <<"start">> =>
          /\ gd'.score = 0 /\ score' = 0 /\ coins' = 0
          /\ hasShield' = FALSE /\ gd'.shieldTimer = 0
          /\ deathReason' = ""
          /\ gd'.lane = 1 /\ gd'.xPos = 0
          /\ gd'.speed = RUN_SPEED_START
          /\ gameStateRef' = "PLAYING" ]_vars

\* A retry after a run lost in a side lane (the only worlds with two objects
\* have their walls left and right): the player is back in the centre.
RetryFromSideLane ==
    /\ last = <<"start">> /\ ticks > 0
    /\ gd.objIdCounter = 2
    /\ gd.lane = 1 /\ gd.xPos = 0 /\ gd.speed = RUN_SPEED_START

\* ---------------------------------------------------------------------------
\* C13: right after every start or retry command the vertical position and
\* velocity are 0, the jumping and sliding flags are false and the slide
\* timer is 0.
StartResetsPose ==
    [][ last' = <<"start">> =>
          /\ gd'.yPos = 0 /\ gd'.velocityY = 0
          /\ ~gd'.isJumping /\ ~gd'.isSliding
          /\ gd'.slideTimer = 0 ]_vars

\* ---------------------------------------------------------------------------
\* C14: whenever the game is PLAYING and the effect re-run caused by the
\* state change has completed, the music sequencer of the current sound
\* controller runs (isPlayingMusic with a live interval timer); the music
\* stops only in the step that takes the game from PLAYING to GAMEOVER.
MusicWhilePlaying ==
    [][ /\ (gameStateRef' = "PLAYING" /\ rendered' = "PLAYING")
             => (sound'.isPlayingMusic /\ sound'.bgmTimerLive)
        /\ (sound.isPlayingMusic /\ ~sound'.isPlayingMusic)
             => (gameStateRef = "PLAYING" /\ gameStateRef' = "GAMEOVER") ]_vars

\* ---------------------------------------------------------------------------
\* The reason each obstacle subtype is to be reported with.
SubtypeReason(subtype) ==
    CASE subtype = "JUMP" -> "TRIPPED ON LOG"
      [] subtype = "SLIDE" -> "HIT HEAD ON GATE"
      [] subtype = "FULL" -> "SMASHED INTO WALL"

\* C15: the death reason is non-empty exactly when the game state is
\* GAMEOVER; the frame that ends the run leaves exactly one active obstacle at
\* the player and the reason is the one of that obstacle's subtype; afterwards
\* the reason stays as it is until the retry.
DeathReasonMatchesObstacle ==
    [][ /\ (deathReason # "") <=> (gameStateRef = "GAMEOVER")
        /\ (deathReason' # "") <=> (gameStateRef' = "GAMEOVER")
        /\ (PlayingTick /\ gameStateRef' = "GAMEOVER") =>
              LET hits == {o \in Objects(gd') : Facing(o, gd') /\ o.active}
              IN /\ Cardinality(hits) = 1
                 /\ \A o \in hits : deathReason' = SubtypeReason(o.subtype)
        /\ (gameStateRef = "GAMEOVER" /\ gameStateRef' = "GAMEOVER")
              => deathReason' = deathReason ]_vars

\* The player tripped on a log and the game-over screen has been rendered.
LogDeathShown ==
    /\ gameStateRef = "GAMEOVER" /\ last = <<"render">>
    /\ deathReason = "TRIPPED ON LOG"

\* ---------------------------------------------------------------------------
\* The objects of the given type that the frame which produced g left inside
\* the hit window and aligned with the player.
Reached(type, g) ==
    {o \in Objects(g) :
        o.type = type /\ InHitWindow(o.z) /\ Aligned(g.xPos, o.lane)}

\* C16: every coin that a PLAYING frame leaves aligned inside the hit window
\* is inactive when the frame ends, whatever the pose, and the frame adds to
\* the coin count exactly the number of those coins; an inactive coin is not
\* in the list of the next frame, so it is counted once.  No step other than
\* start/retry lowers the coin count, and only frames raise it.
CoinCollectedOnce ==
    [][ /\ PlayingTick =>
             /\ \A o \in Reached("COIN", gd') : ~o.active
             /\ coins' = coins + Cardinality(Reached("COIN", gd'))
        /\ last'[1] # "start" => coins' >= coins
        /\ ~PlayingTick /\ last'[1] # "start" => coins' = coins
        /\ PlayingTick =>
             \A o \in Objects(gd) :
                ~o.active => o.id \notin {p.id : p \in Objects(gd')} ]_vars

\* A coin was collected by a player above JUMP_CLEARANCE.
CoinCollectedInTheAir ==
    /\ gameStateRef = "PLAYING" /\ last[1] = "frame"
    /\ coins = 1 /\ gd.isJumping /\ gd.yPos > JUMP_CLEARANCE
    /\ \E o \in Reached("COIN", gd) : ~o.active

\* ---------------------------------------------------------------------------
\* C17: after every step the shield flag is true exactly when the shield timer
\* is above 0; a frame that leaves a shield pickup at the player ends with the
\* timer at SHIELD_DURATION and the flag true, also when a shield was already
\* active; the frame whose countdown takes the timer to 0 or below clears the
\* flag.
ShieldFlagFollowsTimer ==
    [][ /\ hasShield <=> gd.shieldTimer > 0
        /\ hasShield' <=> gd'.shieldTimer > 0
        /\ (PlayingTick /\ Reached("SHIELD", gd') # {}) =>
              /\ gd'.shieldTimer = SHIELD_DURATION /\ hasShield'
              /\ \A o \in Reached("SHIELD", gd') : ~o.active
        /\ (PlayingTick /\ Reached("SHIELD", gd') = {} /\ gd.shieldTimer > 0) =>
              gd'.shieldTimer = gd.shieldTimer - Clamp(last'[2]) ]_vars

\* The second shield of the track was collected while the first, collected
\* 18 frames before, was still counting down.
ShieldRenewed ==
    /\ gameStateRef = "PLAYING" /\ last[1] = "frame"
    /\ gd.shieldTimer = SHIELD_DURATION /\ hasShield
    /\ gd.score < RUN_SPEED_START * SHIELD_DURATION
    /\ \E o \in Reached("SHIELD", gd) : o.id = 1 /\ ~o.active

\* ---------------------------------------------------------------------------
\* C18: a jump command delivered while the game is played changes nothing
\* when the jumping flag or the sliding flag is true; with both flags false
\* it sets the vertical velocity to JUMP_FORCE and the jumping flag, and
\* nothing else.
JumpOnlyFromTheGround ==
    [][ PlayingKey("ArrowUp") =>
          IF gd.isJumping \/ gd.isSliding
          THEN gd' = gd
          ELSE gd' = [gd EXCEPT !.velocityY = JUMP_FORCE, !.isJumping = TRUE] ]_vars

\* ArrowUp was pressed during a slide: the player still slides on the ground.
JumpRefusedInSlide ==
    /\ gameStateRef = "PLAYING" /\ last = <<"key", "ArrowUp">>
    /\ gd.isSliding /\ ~gd.isJumping /\ gd.velocityY = 0 /\ gd.yPos = 0

\* ---------------------------------------------------------------------------
\* The objects that were spawned on the same segment as o: they share its z.
SameSegment(o, g) == {p \in Objects(g) : p.z = o.z}

\* C19: among the objects of one segment no lane holds two objects, and the
\* obstacles either leave a lane free or are JUMP obstacles in all three
\* lanes.
SegmentsTraversable ==
    \A o \in Objects(gd) :
       LET grp == SameSegment(o, gd)
           obst == {p \in grp : p.type = "OBSTACLE"}
       IN  /\ \A p, q \in grp : p.lane = q.lane => p.id = q.id
           /\ \/ \E l \in {0, 1, 2} : \A p \in obst : p.lane # l
              \/ \A p \in obst : p.subtype = "JUMP"

\* The segment that the first PLAYING frame appended at SEG_FAR_Z has walls in
\* two lanes and a pickup in the safe lane.
PickupInSafeLane ==
    \E o \in Objects(gd) :
       /\ gameStateRef = "PLAYING" /\ last = <<"start">>
       /\ o.z = SEG_FAR_Z
       /\ o.type \in {"COIN", "SHIELD"}
       /\ Cardinality({p \in SameSegment(o, gd) : p.subtype = "FULL"}) = 2

\* ---------------------------------------------------------------------------
\* C20: every object is created beyond the minimum spawn distance: an object
\* that a step adds to the list is at z < -10 when the step ends, and right
\* after the world is built, at mount and at every start or retry, every
\* object is at z < -10, so none is in the hit window or between it and -10.
ObjectsSpawnFarAhead ==
    [][ /\ last = <<"mount">> =>
             \A o \in Objects(gd) : o.z < SPAWN_MIN_Z
        /\ last'[1] \in {"start", "render"} =>
             \A o \in Objects(gd') : o.z < SPAWN_MIN_Z /\ ~InHitWindow(o.z)
        /\ \A o \in Objects(gd') :
             o.id >= gd.objIdCounter => o.z < SPAWN_MIN_Z ]_vars

\* The world built by a start has an object on its nearest segment that may
\* carry one, at z = -20.
ObjectOnNearestSegment ==
    /\ last = <<"start">> /\ gameStateRef = "PLAYING"
    /\ \E o \in Objects(gd) : o.z = -SEG_LEN

\* ---------------------------------------------------------------------------
\* C21: in every state the vertical position is at least 0; the vertical
\* position and the vertical velocity are 0 unless the jumping flag is true;
\* the jumping flag and the sliding flag are never both true.
PoseConsistent ==
    /\ gd.yPos >= 0
    /\ gd.yPos # 0 => gd.isJumping
    /\ gd.velocityY # 0 => gd.isJumping
    /\ ~(gd.isJumping /\ gd.isSliding)

\* ArrowDown was pressed in the air: the player falls fast and does not slide.
DuckInTheAir ==
    /\ gameStateRef = "PLAYING" /\ last = <<"key", "ArrowDown">>
    /\ gd.isJumping /\ gd.yPos > 0 /\ gd.velocityY = FAST_FALL
    /\ ~gd.isSliding

\* ---------------------------------------------------------------------------
\* The shortest frame time of the runs, and the number of frames after which
\* a pose has ended at the latest: a slide lasts SLIDE_DURATION, longer than
\* any jump.
MinFrame == CHOOSE f \in NominalFrames \cup JitterFrames :
               \A g \in NominalFrames \cup JitterFrames : f <= g
PoseTicks == SLIDE_DURATION \div MinFrame + 1

\* The run goes on for at least PoseTicks more frames.
FramesAhead == ticks + PoseTicks <= MaxLiveTicks

\* C22: while the frames keep coming in PLAYING, every jump ends, whatever
\* jump and duck commands arrive meanwhile: a frame puts the player on the
\* ground with the jumping flag and the vertical velocity cleared; every
\* slide ends: each frame of a slide takes its delta from the slide timer and
\* the sliding flag is cleared by the frame that brings the timer to 0 or
\* below, that is, when the deltas since the start add up to SLIDE_DURATION.
PosesEnd ==
    /\ (gameStateRef = "PLAYING" /\ gd.isJumping /\ FramesAhead)
          ~> (~gd.isJumping /\ gd.yPos = 0 /\ gd.velocityY = 0)
    /\ (gameStateRef = "PLAYING" /\ gd.isSliding /\ FramesAhead)
          ~> ~gd.isSliding
    /\ [][ (PlayingTick /\ gd.isSliding) =>
             /\ gd'.slideTimer = gd.slideTimer - Clamp(last'[2])
             /\ gd'.isSliding <=> gd'.slideTimer > 0 ]_vars
    /\ [][ PlayingKey("ArrowDown") =>
             gd'.slideTimer = IF gd.isJumping \/ gd.isSliding
                              THEN gd.slideTimer ELSE SLIDE_DURATION ]_vars

\* A slide has been ended by a frame that took the slide timer below 0: the
\* deltas of its frames add up to more than SLIDE_DURATION.
SlideRanOut ==
    /\ gameStateRef = "PLAYING" /\ last[1] = "frame" /\ keys >= 1
    /\ ~gd.isJumping /\ ~gd.isSliding /\ gd.yPos = 0 /\ gd.velocityY = 0
    /\ gd.slideTimer < 0 /\ gd.slideTimer > -MAX_DELTA

\* ---------------------------------------------------------------------------
\* C23: every PLAYING frame moves the lateral position toward the offset of
\* the target lane without passing it: the new position lies between the old
\* one and the target, and the lateral position stays within
\* [LANES[0], LANES[2]].
LateralApproachesTarget ==
    [][ PlayingTick =>
          LET target == LANES[gd.lane + 1]
          IN  /\ Min(gd.xPos, target) <= gd'.xPos
              /\ gd'.xPos <= -Min(-gd.xPos, -target)
              /\ Abs(gd'.xPos - target) <= Abs(gd.xPos - target)
              /\ -LANE_X <= gd'.xPos /\ gd'.xPos <= LANE_X ]_vars

\* ---------------------------------------------------------------------------
\* C24: no PLAYING frame takes an active object from z <= HIT_Z_MIN to
\* z >= HIT_Z_MAX, so every object that passes the player is inside the hit
\* window when some frame ends; and no active FULL obstacle in the lane of a
\* player without shield gets from before HIT_Z_MAX to HIT_Z_MAX or beyond,
\* the player being aligned with it before and after the frame: the run has
\* ended before.
NothingPassesUnchecked ==
    [][ PlayingTick =>
          \A o \in Objects(gd) : \A p \in Objects(gd') :
             (p.id = o.id /\ o.active) =>
                /\ o.z <= HIT_Z_MIN => p.z < HIT_Z_MAX
                /\ ~( /\ o.type = "OBSTACLE" /\ o.subtype = "FULL"
                      /\ Aligned(gd.xPos, o.lane) /\ Aligned(gd'.xPos, o.lane)
                      /\ gd'.shieldTimer <= 0
                      /\ o.z < HIT_Z_MAX /\ p.z >= HIT_Z_MAX ) ]_vars

\* ---------------------------------------------------------------------------
\* C25: every active object is where a segment of the segment list is: it was
\* created at its segment's position, both have been moved by the same
\* distance in every frame since, the frame of their creation included, and
\* the segment is still in the list.  (Segments are SEG_LEN apart and a frame
\* moves the track by less than that, so no other segment can be where the
\* object is.)
ObjectsOnTheirSegment ==
    \A o \in Objects(gd) :
       o.active => \E i \in 1..Len(gd.segments) : gd.segments[i] = o.z

\* ---------------------------------------------------------------------------
\* C26: across mount, start, death, render and retry there is exactly one
\* animation-frame loop and one keydown listener, and at most one interval
\* timer of the music sequencer, which is the one of the current sound
\* controller; so a key press changes the lane by at most 1 and a PLAYING
\* frame advances the run by exactly one tick: the speed by SPEED_INC * delta
\* up to MAX_SPEED, the distance by the new speed * delta.
OneLoopOneListener ==
    [][ /\ loops = 1 /\ loops' = 1
        /\ listeners = 1 /\ listeners' = 1
        /\ timers' = IF sound'.bgmTimerLive THEN 1 ELSE 0
        /\ last'[1] = "key" => Abs(gd'.lane - gd.lane) <= 1
        /\ PlayingTick =>
             /\ gd'.speed = NextSpeed(gd.speed, Clamp(last'[2]))
             /\ gd'.score = gd.score + gd'.speed * Clamp(last'[2]) ]_vars

\* After a death and a retry, hence three runs of the effect and two
\* teardowns, ArrowLeft was pressed before any frame of the new run: the lane
\* went from 1 to 0.
KeyAfterRetry ==
    /\ gameStateRef = "PLAYING" /\ last = <<"key", "ArrowLeft">>
    /\ ticks > 0 /\ gd.score = 0 /\ gd.lane = 0
    /\ loops = 1 /\ listeners = 1

\* ---------------------------------------------------------------------------
\* C27: from the death to the retry the world is frozen: no step taken in
\* GAMEOVER that leaves the game in GAMEOVER changes the object list or the
\* segment list, and a GAMEOVER frame puts the monster at the lateral
\* position the player had at death, which gameData keeps.
WorldFrozenAfterDeath ==
    [][ (gameStateRef = "GAMEOVER" /\ gameStateRef' = "GAMEOVER") =>
          /\ gd'.objects = gd.objects
          /\ gd'.segments = gd.segments
          /\ gd'.xPos = gd.xPos
          /\ last'[1] = "frame" => monster'.x = [at |-> TRUE, v |-> gd.xPos] ]_vars

====
